---------------------------- MODULE Spec2Model ----------------------------
(***************************************************************************)
(* A model of dz_xml.py, the translator of a small configuration language  *)
(* (named constants, nested dictionaries, postfix expressions) into XML.   *)
(*                                                                         *)
(* One behaviour of the model is one run of main(): the source text is     *)
(* fixed in the initial state, then parser.parse, BuildAST().transform,    *)
(* eval_config (stepped declaration by declaration, dictionary entry by    *)
(* dictionary entry and expression token by expression token), build_xml   *)
(* and ElementTree.write follow, or the run ends in sys.exit(1).           *)
(*                                                                         *)
(* Abstractions.  The source text is its sequence of lexical tokens        *)
(* (comments and white space are already dropped; a character no terminal  *)
(* matches is the token "?").  A Python float is the exact rational it     *)
(* denotes, kept in lowest terms: rounding, infinities and NaN are not     *)
(* modelled, and none can arise from the bounded literals used here.       *)
(* A Python dict is the sequence of its (key, value) items in insertion    *)
(* order.                                                                  *)
(***************************************************************************)
EXTENDS Integers, Sequences, FiniteSets, TLC

VARIABLES
    text,     \* main: the source text read from the input (a token sequence)
    pc,       \* the position of the run in main / eval_config
    tree,     \* main: tree, the lark parse tree
    ast,      \* main: ast, the list of (name, value node) pairs
    i,        \* eval_config: index of the declaration the for loop is at
    env,      \* eval_config: env
    result,   \* eval_config: result
    frames,   \* the active eval_value calls on dictionaries, innermost last
    node,     \* eval_value: node, the argument of the call being entered
    tokens,   \* eval_expr: tokens
    pos,      \* eval_expr: index of the token the for loop is at
    stack,    \* eval_expr: stack
    ret,      \* the value the last finished eval_value call returned
    data,     \* main: data, the mapping eval_config returned
    root,     \* main: root, the element build_xml returned
    output,   \* the content of the output file
    stderr,   \* what main printed on the error stream
    exc,      \* the exception that ended the run, "" when none
    exit      \* the exit status of the process, -1 while it runs

vars == <<text, pc, tree, ast, i, env, result, frames, node, tokens, pos,
          stack, ret, data, root, output, stderr, exc, exit>>

None == [k |-> "None"]

(***************************************************************************)
(* Bounds of the inputs.                                                   *)
(***************************************************************************)
MaxDecls == 3
MaxTokens == 3
MaxEntries == 2

(***************************************************************************)
(* Sequence helpers.                                                       *)
(***************************************************************************)
Front(s) == SubSeq(s, 1, Len(s) - 1)

Last(s) == s[Len(s)]

SeqsUpTo(S, n) == UNION {[1..m -> S] : m \in 0..n}

RECURSIVE Flatten(_)
Flatten(ss) == IF ss = <<>> THEN <<>> ELSE Head(ss) \o Flatten(Tail(ss))

(***************************************************************************)
(* Python floats, as rationals n/d in lowest terms with d > 0.             *)
(***************************************************************************)
Abs(x) == IF x < 0 THEN -x ELSE x

RECURSIVE GCD(_, _)
GCD(x, y) == IF y = 0 THEN x ELSE GCD(y, x % y)

Float(n, d) ==
    LET s == IF d < 0 THEN -1 ELSE 1
        g == GCD(Abs(n), Abs(d))
    IN  [k |-> "float", n |-> (s * n) \div g, d |-> (s * d) \div g]

IsFloat(v) == v.k = "float"

FloatAdd(a, b) == Float(a.n * b.d + b.n * a.d, a.d * b.d)

FloatSub(a, b) == Float(a.n * b.d - b.n * a.d, a.d * b.d)

FloatMul(a, b) == Float(a.n * b.n, a.d * b.d)

\* a / b for b # 0
FloatDiv(a, b) == Float(a.n * b.d, a.d * b.n)

FloatLess(a, b) == a.n * b.d < b.n * a.d

\* the builtin min(a, b): the first argument unless the second is smaller
PyMin(a, b) == IF FloatLess(b, a) THEN b ELSE a

RECURSIVE DigitsValue(_)
DigitsValue(ds) ==
    IF ds = <<>> THEN 0 ELSE 10 * DigitsValue(Front(ds)) + Last(ds)

RECURSIVE Pow10(_)
Pow10(m) == IF m = 0 THEN 1 ELSE 10 * Pow10(m - 1)

\* float(token) for a NUMBER token /[0-9]+(\.[0-9]+)?/
PyFloat(tok) ==
    Float(DigitsValue(tok.ip) * Pow10(Len(tok.fp)) + DigitsValue(tok.fp),
          Pow10(Len(tok.fp)))

(***************************************************************************)
(* Python dicts: items in insertion order; assigning to a key that is      *)
(* present keeps its place.                                                *)
(***************************************************************************)
EmptyDict == [k |-> "pydict", items |-> <<>>]

IsDict(v) == v.k = "pydict"

DictHas(d, key) == \E j \in 1..Len(d.items) : d.items[j].key = key

DictGet(d, key) ==
    d.items[CHOOSE j \in 1..Len(d.items) : d.items[j].key = key].val

DictSet(d, key, val) ==
    IF DictHas(d, key)
    THEN [d EXCEPT !.items =
            [j \in 1..Len(d.items) |->
                IF d.items[j].key = key
                THEN [key |-> key, val |-> val] ELSE d.items[j]]]
    ELSE [d EXCEPT !.items = Append(d.items, [key |-> key, val |-> val])]

(***************************************************************************)
(* Tokens of the grammar.                                                  *)
(***************************************************************************)
Tok(t) == [t |-> t]

NameTok(s) == [t |-> "NAME", s |-> s]

NumTok(ip, fp) == [t |-> "NUMBER", ip |-> ip, fp |-> fp]

\* a lark Tree and a lark Token among a tree's children
Tree(rule, children) == [data |-> rule, children |-> children]

IsTree(x) == "data" \in DOMAIN x

ParseFail == [ok |-> FALSE]

Parsed(t, p) == [ok |-> TRUE, tree |-> t, pos |-> p]

At(toks, p) == IF p <= Len(toks) THEN toks[p].t ELSE "$END"

\* expr_item: NUMBER | NAME | "+" | "-" | "*" | "/", each with its alias
expr_item(tok) ==
    CASE tok.t = "NUMBER" -> Tree("expr_number", <<tok>>)
      [] tok.t = "NAME"   -> Tree("expr_name", <<tok>>)
      [] tok.t = "+"      -> Tree("expr_plus", <<>>)
      [] tok.t = "-"      -> Tree("expr_minus", <<>>)
      [] tok.t = "*"      -> Tree("expr_mul", <<>>)
      [] tok.t = "/"      -> Tree("expr_div", <<>>)

\* expr_item+ : the longest run of items from position p
RECURSIVE ParseItems(_, _, _)
ParseItems(toks, p, acc) ==
    IF At(toks, p) \in {"NUMBER", "NAME", "+", "-", "*", "/"}
    THEN ParseItems(toks, p + 1, Append(acc, expr_item(toks[p])))
    ELSE Parsed(acc, p)

\* ?value: number | dictionary | expr      and      dict_entry*
RECURSIVE ParseValue(_, _)
RECURSIVE ParseEntries(_, _, _)
ParseValue(toks, p) ==
    CASE At(toks, p) = "NUMBER" -> Parsed(Tree("number", <<toks[p]>>), p + 1)
      [] At(toks, p) = "begin" ->
            LET r == ParseEntries(toks, p + 1, <<>>)
            IN  IF r.ok /\ At(toks, r.pos) = "end"
                THEN Parsed(Tree("dictionary", r.tree), r.pos + 1)
                ELSE ParseFail
      [] At(toks, p) = "$" ->
            LET r == ParseItems(toks, p + 1, <<>>)
            IN  IF r.tree # <<>> /\ At(toks, r.pos) = "$"
                THEN Parsed(Tree("expr", r.tree), r.pos + 1)
                ELSE ParseFail
      [] OTHER -> ParseFail

\* dict_entry: NAME ":=" value ";"
ParseEntries(toks, p, acc) ==
    IF At(toks, p) = "NAME"
    THEN IF At(toks, p + 1) = ":="
         THEN LET r == ParseValue(toks, p + 2)
              IN  IF r.ok /\ At(toks, r.pos) = ";"
                  THEN ParseEntries(toks, r.pos + 1,
                          Append(acc, Tree("dict_entry", <<toks[p], r.tree>>)))
                  ELSE ParseFail
         ELSE ParseFail
    ELSE Parsed(acc, p)

\* statement*, with statement: const_decl and const_decl: NAME ":" value ";"
RECURSIVE ParseStatements(_, _, _)
ParseStatements(toks, p, acc) ==
    IF At(toks, p) = "NAME"
    THEN IF At(toks, p + 1) = ":"
         THEN LET r == ParseValue(toks, p + 2)
              IN  IF r.ok /\ At(toks, r.pos) = ";"
                  THEN ParseStatements(toks, r.pos + 1,
                          Append(acc, Tree("statement",
                              <<Tree("const_decl", <<toks[p], r.tree>>)>>)))
                  ELSE ParseFail
         ELSE ParseFail
    ELSE Parsed(acc, p)

\* parser.parse(text): the tree of start: statement*, or a LarkError
parse(toks) ==
    LET r == ParseStatements(toks, 1, <<>>)
    IN  IF r.ok /\ r.pos = Len(toks) + 1
        THEN Parsed(Tree("start", r.tree), r.pos)
        ELSE ParseFail


(***************************************************************************)
(* BuildAST: the callbacks of the transformer.  A value node is a float,   *)
(* ("dict", d) or ("expr", items); an expression item is a float or a str. *)
(***************************************************************************)
Str(s) == [k |-> "str", s |-> s]

Raised(e, what) == [k |-> "raise", exc |-> e, what |-> what]

statement(items) == items[1]

start(items) == items

const_decl(items) == [name |-> items[1].s, val |-> items[2]]

\* number that keeps the integer part of the literal only
number_IntegerPart(items) == Float(DigitsValue(items[1].ip), 1)

number(items) == PyFloat(items[1])

\* the for loop of dictionary, from item j on with d built so far
RECURSIVE dictionary_loop(_, _, _)
dictionary_loop(items, j, d) ==
    IF j > Len(items)
    THEN [k |-> "dict", d |-> d]
    ELSE IF DictHas(d, items[j].name)
         THEN Raised("Duplicate key in dictionary", items[j].name)
         ELSE dictionary_loop(items, j + 1,
                              DictSet(d, items[j].name, items[j].val))

\* dictionary that also rejects a key that a dictionary nested in its own
\* entry uses
RECURSIVE dictionary_loop_SeesNested(_, _, _)
dictionary_loop_SeesNested(items, j, d) ==
    IF j > Len(items)
    THEN [k |-> "dict", d |-> d]
    ELSE IF \/ DictHas(d, items[j].name)
            \/ /\ items[j].val.k = "dict"
               /\ DictHas(items[j].val.d, items[j].name)
         THEN Raised("Duplicate key in dictionary", items[j].name)
         ELSE dictionary_loop_SeesNested(items, j + 1,
                              DictSet(d, items[j].name, items[j].val))

dictionary_SeesNested(items) == dictionary_loop_SeesNested(items, 1, EmptyDict)

dictionary(items) == dictionary_loop(items, 1, EmptyDict)

dict_entry(items) == [name |-> items[1].s, val |-> items[2]]

expr(items) == [k |-> "expr", items |-> items]

expr_number(items) == PyFloat(items[1])

expr_name(items) == Str(items[1].s)

expr_plus(items) == Str("+")

expr_minus(items) == Str("-")

expr_mul(items) == Str("*")

expr_div(items) == Str("/")

Ok(v) == [ok |-> TRUE, val |-> v]

\* Transformer.transform: children first, left to right, then the callback
\* of the rule; the first exception a callback raises ends the transform.
RECURSIVE transform(_)
RECURSIVE transform_children(_, _, _)
transform(t) ==
    LET c == transform_children(t.children, 1, <<>>)
    IN  IF ~c.ok THEN c
        ELSE CASE t.data = "start"       -> Ok(start(c.val))
               [] t.data = "statement"   -> Ok(statement(c.val))
               [] t.data = "const_decl"  -> Ok(const_decl(c.val))
               [] t.data = "number"      -> Ok(number(c.val))
               [] t.data = "dict_entry"  -> Ok(dict_entry(c.val))
               [] t.data = "expr"        -> Ok(expr(c.val))
               [] t.data = "expr_number" -> Ok(expr_number(c.val))
               [] t.data = "expr_name"   -> Ok(expr_name(c.val))
               [] t.data = "expr_plus"   -> Ok(expr_plus(c.val))
               [] t.data = "expr_minus"  -> Ok(expr_minus(c.val))
               [] t.data = "expr_mul"    -> Ok(expr_mul(c.val))
               [] t.data = "expr_div"    -> Ok(expr_div(c.val))
               [] t.data = "dictionary"  ->
                    LET v == dictionary(c.val)
                    IN  IF v.k = "raise"
                        THEN [ok |-> FALSE, exc |-> v.exc, what |-> v.what]
                        ELSE Ok(v)

transform_children(cs, j, acc) ==
    IF j > Len(cs) THEN Ok(acc)
    ELSE IF IsTree(cs[j])
         THEN LET r == transform(cs[j])
              IN  IF r.ok THEN transform_children(cs, j + 1, Append(acc, r.val))
                  ELSE r
         ELSE transform_children(cs, j + 1, Append(acc, cs[j]))

(***************************************************************************)
(* build_xml.  An element is its tag, its name attribute, its text and     *)
(* its children.  str(value) is the decimal text of the float: sign,       *)
(* integer digits, fraction digits (at least one), the fraction cut after  *)
(* ReprDigits digits when it does not end.                                 *)
(***************************************************************************)
ReprDigits == 16

RECURSIVE IntDigits(_)
IntDigits(n) == IF n < 10 THEN <<n>> ELSE Append(IntDigits(n \div 10), n % 10)

RECURSIVE FracDigits(_, _, _)
FracDigits(r, d, m) ==
    IF r = 0 \/ m = 0 THEN <<>>
    ELSE <<(10 * r) \div d>> \o FracDigits((10 * r) % d, d, m - 1)

PyStr(v) ==
    [neg |-> v.n < 0,
     ip  |-> IntDigits(Abs(v.n) \div v.d),
     fp  |-> IF Abs(v.n) % v.d = 0 THEN <<0>>
             ELSE FracDigits(Abs(v.n) % v.d, v.d, ReprDigits)]

Element(tag, name, txt, children) ==
    [tag |-> tag, name |-> name, text |-> txt, children |-> children]

\* add_value(parent, name, value): the element appended to parent
RECURSIVE add_value(_, _)
\* add_value that emits the children of a dictionary last entry first
add_value_Reversed(name, value) ==
    IF IsDict(value)
    THEN Element("dict", name, None,
            [j \in 1..Len(value.items) |->
                add_value(value.items[Len(value.items) + 1 - j].key,
                          value.items[Len(value.items) + 1 - j].val)])
    ELSE Element("number", name, PyStr(value), <<>>)

add_value(name, value) ==
    IF IsDict(value)
    THEN Element("dict", name, None,
            [j \in 1..Len(value.items) |->
                add_value(value.items[j].key, value.items[j].val)])
    ELSE Element("number", name, PyStr(value), <<>>)

build_xml(d) ==
    Element("config", "", None,
        [j \in 1..Len(d.items) |-> add_value(d.items[j].key, d.items[j].val)])


(***************************************************************************)
(* The source texts of the runs.                                           *)
(***************************************************************************)
IntTok(dd) == NumTok(<<dd>>, <<>>)

RefSrc(s) == <<Tok("$"), NameTok(s), Tok("$")>>

ExprSrc(items) == <<Tok("$")>> \o items \o <<Tok("$")>>

EntrySrc(key, v) == <<NameTok(key), Tok(":=")>> \o v \o <<Tok(";")>>

DictSrc(entries) == <<Tok("begin")>> \o Flatten(entries) \o <<Tok("end")>>

DeclSrc(name, v) == <<NameTok(name), Tok(":")>> \o v \o <<Tok(";")>>

Names == {"a", "b"}

Operators == {"+", "-", "*", "/"}

ExprItems ==
    {IntTok(0), IntTok(1), IntTok(2)} \cup {NameTok(s) : s \in Names \cup {"min"}}
        \cup {Tok(o) : o \in Operators}

\* a: 0.5; b: $ ... $;  with every item sequence of up to MaxTokens items
ExprTexts ==
    {DeclSrc("a", <<NumTok(<<0>>, <<5>>)>>) \o DeclSrc("b", ExprSrc(items)) :
        items \in SeqsUpTo(ExprItems, MaxTokens)}

\* up to MaxDecls declarations of a and b: numbers, references, a dictionary
DeclValues ==
    {<<IntTok(1)>>, <<NumTok(<<2>>, <<5, 0>>)>>, RefSrc("a"), RefSrc("b"),
     DictSrc(<<EntrySrc("b", <<IntTok(1)>>), EntrySrc("a", RefSrc("b"))>>)}

DeclTexts ==
    {Flatten(ds) :
        ds \in SeqsUpTo({DeclSrc(n, v) : n \in Names, v \in DeclValues},
                        MaxDecls)}

\* a: begin ... end;  two levels of dictionaries with up to MaxEntries entries
InnerDicts ==
    {DictSrc(es) :
        es \in SeqsUpTo({EntrySrc(key, <<IntTok(1)>>) : key \in Names}, MaxEntries)}

NestedDictTexts ==
    {DeclSrc("a", DictSrc(es)) :
        es \in SeqsUpTo({EntrySrc(key, v) :
                            key \in Names, v \in {<<IntTok(1)>>} \cup InnerDicts},
                        MaxEntries)}

\* a: 2; b: begin ... end;  entries that refer to a, to b and to each other
RefLeaves == {<<IntTok(1)>>, RefSrc("a"), RefSrc("b")}

RefDictTexts ==
    {DeclSrc("a", <<IntTok(2)>>) \o DeclSrc("b", DictSrc(es)) :
        es \in SeqsUpTo(
                {EntrySrc(key, v) :
                    key \in Names,
                    v \in RefLeaves \cup
                          {DictSrc(<<EntrySrc(k2, w)>>) :
                              k2 \in Names, w \in RefLeaves}},
                MaxEntries)}

\* the sources the specification's section 8 gives
ExampleTexts ==
    {DeclSrc("a", <<IntTok(2)>>)
        \o DeclSrc("b", ExprSrc(<<NameTok("a"), IntTok(3), Tok("+")>>)),
     DeclSrc("x", ExprSrc(<<IntTok(3), IntTok(4), NameTok("min")>>)),
     DeclSrc("d", DictSrc(<<EntrySrc("k", <<IntTok(1)>>),
                            EntrySrc("k", <<IntTok(2)>>)>>)),
     DeclSrc("y", ExprSrc(<<NameTok("z"), IntTok(1), Tok("+")>>)),
     DeclSrc("d", DictSrc(<<EntrySrc("a", <<IntTok(1)>>)>>))
        \o DeclSrc("e", ExprSrc(<<NameTok("d"), IntTok(1), Tok("+")>>)),
     DeclSrc("x", ExprSrc(<<NumTok(<<1, 0>>, <<>>), IntTok(2), IntTok(3),
                            Tok("-"), Tok("-")>>))}

\* an example with one token missing, or with a character no terminal matches
Without(s, j) == SubSeq(s, 1, j - 1) \o SubSeq(s, j + 1, Len(s))

BrokenTexts ==
    UNION {{Without(s, j) : j \in 1..Len(s)} \cup
           {SubSeq(s, 1, j - 1) \o <<Tok("?")>> \o SubSeq(s, j, Len(s)) :
               j \in 1..Len(s)} :
           s \in ExampleTexts}

SourceTexts ==
    ExprTexts \cup DeclTexts \cup NestedDictTexts \cup RefDictTexts
        \cup ExampleTexts \cup BrokenTexts

(***************************************************************************)
(* main.                                                                   *)
(***************************************************************************)
Init ==
    /\ text \in SourceTexts
    /\ pc = "parse"
    /\ tree = None
    /\ ast = <<>>
    /\ i = 0
    /\ env = EmptyDict
    /\ result = EmptyDict
    /\ frames = <<>>
    /\ node = None
    /\ tokens = <<>>
    /\ pos = 0
    /\ stack = <<>>
    /\ ret = None
    /\ data = None
    /\ root = None
    /\ output = None
    /\ stderr = ""
    /\ exc = ""
    /\ exit = -1

\* print(f"... error: {e}", file=sys.stderr); sys.exit(1).  The variables of
\* the calls the exception unwinds keep the values they had when it was
\* raised.
Abort(prefix, e) ==
    /\ stderr' = prefix
    /\ exc' = e
    /\ exit' = 1
    /\ pc' = "exit"

\* Raise without sys.exit(1): the error is printed and main goes on
Raise_NoExit(e) ==
    /\ stderr' = "Semantic error"
    /\ exc' = e
    /\ exit' = exit
    /\ pc' = "build_xml"

\* an exception raised inside the second try block of main
Raise(e) == Abort("Semantic error", e)

\* tree = parser.parse(text), except lark.LarkError
Parse ==
    /\ pc = "parse"
    /\ LET r == parse(text)
       IN  \/ /\ r.ok
              /\ tree' = r.tree
              /\ pc' = "transform"
              /\ UNCHANGED <<stderr, exc, exit>>
           \/ /\ ~r.ok
              /\ Abort("Syntax error", "LarkError")
              /\ UNCHANGED tree
    /\ UNCHANGED <<text, ast, i, env, result, frames, node, tokens, pos,
                   stack, ret, data, root, output>>

\* ast = BuildAST().transform(tree)
Transform ==
    /\ pc = "transform"
    /\ LET r == transform(tree)
       IN  \/ /\ r.ok
              /\ ast' = r.val
              /\ pc' = "eval_config"
              /\ UNCHANGED <<stderr, exc, exit>>
           \/ /\ ~r.ok
              /\ Raise(r.exc)
              /\ UNCHANGED ast
    /\ UNCHANGED <<text, tree, i, env, result, frames, node, tokens, pos,
                   stack, ret, data, root, output>>

\* eval_config(ast) is entered: env = {}, result = {}
EvalConfig ==
    /\ pc = "eval_config"
    /\ env' = EmptyDict
    /\ result' = EmptyDict
    /\ i' = 1
    /\ pc' = "for_decl"
    /\ UNCHANGED <<text, tree, ast, frames, node, tokens, pos, stack, ret,
                   data, root, output, stderr, exc, exit>>

\* for name, val_ast in ast: value = eval_value(val_ast) is called
ForDecl ==
    /\ pc = "for_decl"
    /\ i <= Len(ast)
    /\ node' = ast[i].val
    /\ pc' = "eval_value"
    /\ UNCHANGED <<text, tree, ast, i, env, result, frames, tokens, pos,
                   stack, ret, data, root, output, stderr, exc, exit>>

\* the loop is over: return result, and data = eval_config(ast) in main
ReturnResult ==
    /\ pc = "for_decl"
    /\ i > Len(ast)
    /\ data' = result
    /\ pc' = "build_xml"
    /\ UNCHANGED <<text, tree, ast, i, env, result, frames, node, tokens, pos,
                   stack, ret, root, output, stderr, exc, exit>>

\* eval_value on a number: return float(node)
EvalNumber ==
    /\ pc = "eval_value"
    /\ node.k = "float"
    /\ ret' = node
    /\ pc' = "return"
    /\ UNCHANGED <<text, tree, ast, i, env, result, frames, node, tokens, pos,
                   stack, data, root, output, stderr, exc, exit>>

\* eval_value on ("dict", ...): d = {} and the loop over its items begins
EvalDict ==
    /\ pc = "eval_value"
    /\ node.k = "dict"
    /\ frames' = Append(frames, [items |-> node.d.items, idx |-> 1,
                                 d |-> EmptyDict])
    /\ pc' = "dict_items"
    /\ UNCHANGED <<text, tree, ast, i, env, result, node, tokens, pos, stack,
                   ret, data, root, output, stderr, exc, exit>>

\* for k, v_ast in node[1].items(): eval_value(v_ast) is called
DictItem ==
    /\ pc = "dict_items"
    /\ Last(frames).idx <= Len(Last(frames).items)
    /\ node' = Last(frames).items[Last(frames).idx].val
    /\ pc' = "eval_value"
    /\ UNCHANGED <<text, tree, ast, i, env, result, frames, tokens, pos,
                   stack, ret, data, root, output, stderr, exc, exit>>

\* the loop over the items is over: return d
DictReturn ==
    /\ pc = "dict_items"
    /\ Last(frames).idx > Len(Last(frames).items)
    /\ ret' = Last(frames).d
    /\ frames' = Front(frames)
    /\ pc' = "return"
    /\ UNCHANGED <<text, tree, ast, i, env, result, node, tokens, pos, stack,
                   data, root, output, stderr, exc, exit>>

\* DictStore that also binds the entry in env, as if it were a declaration
DictStore_BindsEnv ==
    /\ pc = "return"
    /\ frames # <<>>
    /\ LET f == Last(frames)
       IN  /\ frames' = [frames EXCEPT ![Len(frames)] =
                          [f EXCEPT !.d = DictSet(f.d, f.items[f.idx].key, ret),
                                    !.idx = f.idx + 1]]
           /\ env' = DictSet(env, f.items[f.idx].key, ret)
    /\ pc' = "dict_items"
    /\ UNCHANGED <<text, tree, ast, i, result, node, tokens, pos, stack,
                   ret, data, root, output, stderr, exc, exit>>

\* d[k] = eval_value(v_ast): the value returned into a dictionary's loop
DictStore ==
    /\ pc = "return"
    /\ frames # <<>>
    /\ LET f == Last(frames)
       IN  frames' = [frames EXCEPT ![Len(frames)] =
                        [f EXCEPT !.d = DictSet(f.d, f.items[f.idx].key, ret),
                                  !.idx = f.idx + 1]]
    /\ pc' = "dict_items"
    /\ UNCHANGED <<text, tree, ast, i, env, result, node, tokens, pos, stack,
                   ret, data, root, output, stderr, exc, exit>>

\* Bind with setdefault: a name that is already bound keeps its first value
Bind_FirstWins ==
    /\ pc = "return"
    /\ frames = <<>>
    /\ env' = IF DictHas(env, ast[i].name) THEN env
              ELSE DictSet(env, ast[i].name, ret)
    /\ result' = IF DictHas(result, ast[i].name) THEN result
                 ELSE DictSet(result, ast[i].name, ret)
    /\ i' = i + 1
    /\ pc' = "for_decl"
    /\ UNCHANGED <<text, tree, ast, frames, node, tokens, pos, stack, ret,
                   data, root, output, stderr, exc, exit>>

\* value = eval_value(val_ast) returned to the loop of eval_config:
\* env[name] = value; result[name] = value
Bind ==
    /\ pc = "return"
    /\ frames = <<>>
    /\ env' = DictSet(env, ast[i].name, ret)
    /\ result' = DictSet(result, ast[i].name, ret)
    /\ i' = i + 1
    /\ pc' = "for_decl"
    /\ UNCHANGED <<text, tree, ast, frames, node, tokens, pos, stack, ret,
                   data, root, output, stderr, exc, exit>>


\* eval_value on ("expr", ...): eval_expr(node[1]) is called, stack = []
EvalExpr ==
    /\ pc = "eval_value"
    /\ node.k = "expr"
    /\ tokens' = node.items
    /\ pos' = 1
    /\ stack' = <<>>
    /\ pc' = "eval_expr"
    /\ UNCHANGED <<text, tree, ast, i, env, result, frames, node, ret, data,
                   root, output, stderr, exc, exit>>

AtToken == pc = "eval_expr" /\ pos <= Len(tokens)

Pop2(s) == SubSeq(s, 1, Len(s) - 2)

\* a float token: stack.append(float(tok))
ExprNumber ==
    /\ AtToken
    /\ tokens[pos].k = "float"
    /\ stack' = Append(stack, tokens[pos])
    /\ pos' = pos + 1
    /\ UNCHANGED <<text, pc, tree, ast, i, env, result, frames, node, tokens,
                   ret, data, root, output, stderr, exc, exit>>

\* ExprMin that pops b before it checks that a second operand is there
ExprMin_PopThenCheck ==
    /\ AtToken
    /\ tokens[pos].k = "str"
    /\ tokens[pos].s = "min"
    /\ \/ /\ Len(stack) < 2
          /\ Raise("min requires at least two operands")
          /\ stack' = IF stack = <<>> THEN stack ELSE Front(stack)
          /\ UNCHANGED pos
       \/ /\ Len(stack) >= 2
          /\ LET b == stack[Len(stack)]
                 a == stack[Len(stack) - 1]
             IN  stack' = Append(Pop2(stack), PyMin(a, b))
          /\ pos' = pos + 1
          /\ UNCHANGED <<pc, stderr, exc, exit>>
    /\ UNCHANGED <<text, tree, ast, i, env, result, frames, node, tokens,
                   ret, data, root, output>>

\* the token min: b = stack.pop(); a = stack.pop(); stack.append(min(a, b))
ExprMin ==
    /\ AtToken
    /\ tokens[pos].k = "str"
    /\ tokens[pos].s = "min"
    /\ \/ /\ Len(stack) < 2
          /\ Raise("min requires at least two operands")
          /\ UNCHANGED <<stack, pos>>
       \/ /\ Len(stack) >= 2
          /\ LET b == stack[Len(stack)]
                 a == stack[Len(stack) - 1]
             IN  stack' = Append(Pop2(stack), PyMin(a, b))
          /\ pos' = pos + 1
          /\ UNCHANGED <<pc, stderr, exc, exit>>
    /\ UNCHANGED <<text, tree, ast, i, env, result, frames, node, tokens,
                   ret, data, root, output>>

\* BinOp with the operands taken in the order they were popped: b op a
BinOp_Swapped(op, a, b) ==
    CASE op = "+" -> FloatAdd(b, a)
      [] op = "-" -> FloatSub(b, a)
      [] op = "*" -> FloatMul(b, a)
      [] op = "/" -> IF a.n = 0 THEN Raised("ZeroDivisionError", "/")
                     ELSE FloatDiv(b, a)

\* BinOp with a guarded division: a / 0 is 0 instead of an exception
BinOp_ZeroQuotient(op, a, b) ==
    CASE op = "+" -> FloatAdd(a, b)
      [] op = "-" -> FloatSub(a, b)
      [] op = "*" -> FloatMul(a, b)
      [] op = "/" -> IF b.n = 0 THEN Float(0, 1) ELSE FloatDiv(a, b)

\* a + b, a - b, a * b, a / b as Python computes them on floats: a / b
\* raises ZeroDivisionError when b is zero
BinOp(op, a, b) ==
    CASE op = "+" -> FloatAdd(a, b)
      [] op = "-" -> FloatSub(a, b)
      [] op = "*" -> FloatMul(a, b)
      [] op = "/" -> IF b.n = 0 THEN Raised("ZeroDivisionError", "/")
                     ELSE FloatDiv(a, b)

\* an operator token: b = stack.pop(); a = stack.pop(); stack.append(a op b)
ExprOperator ==
    /\ AtToken
    /\ tokens[pos].k = "str"
    /\ tokens[pos].s \in Operators
    /\ \/ /\ Len(stack) < 2
          /\ Raise("Operator requires two operands")
          /\ UNCHANGED <<stack, pos>>
       \/ /\ Len(stack) >= 2
          /\ LET b == stack[Len(stack)]
                 a == stack[Len(stack) - 1]
                 v == BinOp(tokens[pos].s, a, b)
             IN  \/ /\ v.k = "raise"
                    /\ stack' = Pop2(stack)
                    /\ Raise(v.exc)
                    /\ UNCHANGED pos
                 \/ /\ v.k # "raise"
                    /\ stack' = Append(Pop2(stack), v)
                    /\ pos' = pos + 1
                    /\ UNCHANGED <<pc, stderr, exc, exit>>
    /\ UNCHANGED <<text, tree, ast, i, env, result, frames, node, tokens,
                   ret, data, root, output>>

\* ExprName with env.get(tok, 0.0): an unknown name reads as 0.0
ExprName_Default ==
    /\ AtToken
    /\ tokens[pos].k = "str"
    /\ tokens[pos].s \notin Operators \cup {"min"}
    /\ \/ /\ ~DictHas(env, tokens[pos].s)
          /\ stack' = Append(stack, Float(0, 1))
          /\ pos' = pos + 1
          /\ UNCHANGED <<pc, stderr, exc, exit>>
       \/ /\ DictHas(env, tokens[pos].s)
          /\ ~IsFloat(DictGet(env, tokens[pos].s))
          /\ Raise("Constant is not numeric")
          /\ UNCHANGED <<stack, pos>>
       \/ /\ DictHas(env, tokens[pos].s)
          /\ IsFloat(DictGet(env, tokens[pos].s))
          /\ stack' = Append(stack, DictGet(env, tokens[pos].s))
          /\ pos' = pos + 1
          /\ UNCHANGED <<pc, stderr, exc, exit>>
    /\ UNCHANGED <<text, tree, ast, i, env, result, frames, node, tokens,
                   ret, data, root, output>>

\* any other str token is the name of a constant: looked up in env
ExprName ==
    /\ AtToken
    /\ tokens[pos].k = "str"
    /\ tokens[pos].s \notin Operators \cup {"min"}
    /\ \/ /\ ~DictHas(env, tokens[pos].s)
          /\ Raise("Unknown constant in expression")
          /\ UNCHANGED <<stack, pos>>
       \/ /\ DictHas(env, tokens[pos].s)
          /\ ~IsFloat(DictGet(env, tokens[pos].s))
          /\ Raise("Constant is not numeric")
          /\ UNCHANGED <<stack, pos>>
       \/ /\ DictHas(env, tokens[pos].s)
          /\ IsFloat(DictGet(env, tokens[pos].s))
          /\ stack' = Append(stack, DictGet(env, tokens[pos].s))
          /\ pos' = pos + 1
          /\ UNCHANGED <<pc, stderr, exc, exit>>
    /\ UNCHANGED <<text, tree, ast, i, env, result, frames, node, tokens,
                   ret, data, root, output>>

\* the tokens are consumed: return stack[0] if len(stack) == 1.  tokens,
\* pos and stack keep the finished call's last values until the next call.
ExprReturn ==
    /\ pc = "eval_expr"
    /\ pos > Len(tokens)
    /\ \/ /\ Len(stack) # 1
          /\ Raise("Expression did not reduce to a single value")
          /\ UNCHANGED ret
       \/ /\ Len(stack) = 1
          /\ ret' = stack[1]
          /\ pc' = "return"
          /\ UNCHANGED <<stderr, exc, exit>>
    /\ UNCHANGED <<text, tree, ast, i, env, result, frames, node, tokens, pos,
                   stack, data, root, output>>

\* root = build_xml(data)
BuildXml ==
    /\ pc = "build_xml"
    /\ root' = build_xml(data)
    /\ pc' = "write"
    /\ UNCHANGED <<text, tree, ast, i, env, result, frames, node, tokens, pos,
                   stack, ret, data, output, stderr, exc, exit>>

\* et.write(args.output, ...), and main returns
Write ==
    /\ pc = "write"
    /\ output' = root
    /\ exit' = 0
    /\ pc' = "exit"
    /\ UNCHANGED <<text, tree, ast, i, env, result, frames, node, tokens, pos,
                   stack, ret, data, root, stderr, exc>>

Next ==
    \/ Parse
    \/ Transform
    \/ EvalConfig
    \/ ForDecl
    \/ ReturnResult
    \/ EvalNumber
    \/ EvalDict
    \/ DictItem
    \/ DictReturn
    \/ DictStore
    \/ Bind
    \/ EvalExpr
    \/ ExprNumber
    \/ ExprMin
    \/ ExprOperator
    \/ ExprName
    \/ ExprReturn
    \/ BuildXml
    \/ Write

Spec == Init /\ [][Next]_vars


(***************************************************************************)
(* The error kinds of the specification, by the message the code raises.   *)
(***************************************************************************)
SyntaxError == "LarkError"

DuplicateKeyError == "Duplicate key in dictionary"

UnknownConstantError == "Unknown constant in expression"

NonNumericReferenceError == "Constant is not numeric"

ArityErrors ==
    {"min requires at least two operands", "Operator requires two operands"}

MalformedExpressionError == "Expression did not reduce to a single value"

ZeroDivisionError == "ZeroDivisionError"

Succeeded == pc = "exit" /\ exit = 0

IsConstantName(tok) == tok.k = "str" /\ tok.s \notin Operators \cup {"min"}

IsApplied(tok) == tok.k = "str" /\ tok.s \in Operators \cup {"min"}

(***************************************************************************)
(* A reference postfix evaluator, by recursion on the token sequence: the  *)
(* stack after toks is the stack after all but the last token with the     *)
(* last token applied to it.  A reference that cannot be resolved to a     *)
(* number in e, a missing operand and a division by zero make it Stuck.    *)
(***************************************************************************)
Stuck == <<[k |-> "stuck"]>>

Smaller(a, b) == IF a.n * b.d <= b.n * a.d THEN a ELSE b

RefApply(tok, st, e) ==
    LET m == Len(st) IN
    CASE tok.k = "float" -> Append(st, tok)
      [] IsConstantName(tok) ->
            IF DictHas(e, tok.s) /\ DictGet(e, tok.s).k = "float"
            THEN Append(st, DictGet(e, tok.s)) ELSE Stuck
      [] IsApplied(tok) ->
            IF m < 2 THEN Stuck
            ELSE LET b == st[m]
                     a == st[m - 1]
                     rest == SubSeq(st, 1, m - 2)
                 IN  CASE tok.s = "+" ->
                            Append(rest, Float(a.n * b.d + b.n * a.d, a.d * b.d))
                       [] tok.s = "-" ->
                            Append(rest, Float(a.n * b.d - b.n * a.d, a.d * b.d))
                       [] tok.s = "*" ->
                            Append(rest, Float(a.n * b.n, a.d * b.d))
                       [] tok.s = "/" ->
                            IF b.n = 0 THEN Stuck
                            ELSE Append(rest, Float(a.n * b.d, a.d * b.n))
                       [] tok.s = "min" -> Append(rest, Smaller(a, b))

RECURSIVE RefStack(_, _)
RefStack(toks, e) ==
    IF toks = <<>> THEN <<>>
    ELSE LET st == RefStack(Front(toks), e)
         IN  IF st = Stuck THEN Stuck ELSE RefApply(Last(toks), st, e)

ExprReturns == pc = "eval_expr" /\ pos > Len(tokens) /\ pc' = "return"

\* C4: eval_expr computes what the reference postfix evaluator computes:
\* after each token its stack is the reference stack of the tokens consumed
\* (operators pop b, then a, and push a op b; min pushes the smaller), and
\* the value it returns is the one value of the reference stack of all the
\* tokens; 10 2 3 - - yields 11.
C4_PostfixSemantics ==
    /\ [](pc = "eval_expr" =>
            stack = RefStack(SubSeq(tokens, 1, pos - 1), env))
    /\ [][ExprReturns => <<ret'>> = RefStack(tokens, env)]_vars
    /\ [][(ExprReturns /\
           tokens = <<Float(10, 1), Float(2, 1), Float(3, 1),
                      Str("-"), Str("-")>>)
          => ret' = Float(11, 1)]_vars

C4_Witness ==
    /\ pc = "return"
    /\ tokens = <<Float(10, 1), Float(2, 1), Float(3, 1), Str("-"), Str("-")>>
    /\ ret = Float(11, 1)


DividesByZero ==
    /\ AtToken
    /\ tokens[pos] = Str("/")
    /\ Len(stack) >= 2
    /\ stack[Len(stack)].n = 0

\* C3 as claimed: a division by zero pushes a result and evaluation goes on
\* with the next token; the translation does not abort.
C3_DivisionByZeroContinues ==
    [][DividesByZero =>
        /\ pc' = "eval_expr"
        /\ pos' = pos + 1
        /\ Len(stack') = Len(stack) - 1
        /\ exc' = ""]_vars

\* C3, amended: a division by zero is an error.  When "/" is applied with
\* the top operand equal to 0, both operands are popped, nothing is pushed,
\* ZeroDivisionError is raised and the run ends as a semantic error with
\* exit status 1 and no output.
C3_DivisionByZeroAborts ==
    /\ [][DividesByZero =>
            /\ exc' = ZeroDivisionError
            /\ stderr' = "Semantic error"
            /\ exit' = 1
            /\ pc' = "exit"
            /\ stack' = Pop2(stack)
            /\ pos' = pos]_vars
    /\ [](exc = ZeroDivisionError => pc = "exit" /\ output = None)

C3_Witness ==
    /\ pc = "exit"
    /\ exc = ZeroDivisionError
    /\ tokens[pos] = Str("/")
    /\ output = None

\* C5: an operator or min token is applied only to a stack of at least two
\* values; on a smaller stack evaluation fails with ArityError at that token
\* and the stack is left as it was.  When the tokens are consumed, the one
\* value of a stack of size one is returned, and any other size fails with
\* MalformedExpressionError.
C5_StackDiscipline ==
    /\ [][(AtToken /\ IsApplied(tokens[pos])) =>
            IF Len(stack) < 2
            THEN /\ exc' \in ArityErrors
                 /\ pc' = "exit"
                 /\ stack' = stack
                 /\ pos' = pos
            ELSE /\ exc' \notin ArityErrors
                 /\ SubSeq(stack', 1, Len(stack') - 1) = Pop2(stack)
                    \/ exc' = ZeroDivisionError]_vars
    /\ [][(pc = "eval_expr" /\ pos > Len(tokens)) =>
            IF Len(stack) = 1
            THEN pc' = "return" /\ ret' = stack[1] /\ exc' = ""
            ELSE pc' = "exit" /\ exc' = MalformedExpressionError
                 /\ ret' = ret]_vars
    /\ [](exc \in ArityErrors =>
            pos <= Len(tokens) /\ IsApplied(tokens[pos]) /\ Len(stack) < 2)
    /\ [](exc = MalformedExpressionError =>
            pos > Len(tokens) /\ Len(stack) # 1)

C5_Witness ==
    /\ pc = "exit"
    /\ exc \in ArityErrors
    /\ tokens[pos] = Str("min")
    /\ Len(stack) = 1


(***************************************************************************)
(* The meaning of the declarations of ast, by recursion on their position: *)
(* declaration m denotes the value of its node where a name stands for     *)
(* what the last declaration of that name before m denotes.  A declaration *)
(* whose evaluation fails denotes Bad.                                     *)
(***************************************************************************)
Bad == [k |-> "bad"]

DeclaredBefore(s, m) == \E j \in 1..(m - 1) : ast[j].name = s

LastBefore(s, m) ==
    CHOOSE j \in 1..(m - 1) :
        /\ ast[j].name = s
        /\ \A j2 \in (j + 1)..(m - 1) : ast[j2].name # s

\* the positions before m of the declarations no later one before m redeclares
RECURSIVE LastDecls(_, _)
LastDecls(j, m) ==
    IF j >= m THEN <<>>
    ELSE (IF \E j2 \in (j + 1)..(m - 1) : ast[j2].name = ast[j].name
          THEN <<>> ELSE <<j>>) \o LastDecls(j + 1, m)

RECURSIVE DenDecl(_)
RECURSIVE DenValue(_, _)
DenEnv(m) ==
    LET L == LastDecls(1, m)
    IN  [k |-> "pydict",
         items |-> [q \in 1..Len(L) |->
                      [key |-> ast[L[q]].name, val |-> DenDecl(L[q])]]]

DenValue(nd, m) ==
    CASE nd.k = "float" -> nd
      [] nd.k = "dict" ->
            LET its == [j \in 1..Len(nd.d.items) |->
                          [key |-> nd.d.items[j].key,
                           val |-> DenValue(nd.d.items[j].val, m)]]
            IN  IF \E j \in 1..Len(its) : its[j].val = Bad THEN Bad
                ELSE [k |-> "pydict", items |-> its]
      [] nd.k = "expr" ->
            LET st == RefStack(nd.items, DenEnv(m))
            IN  IF st = Stuck \/ Len(st) # 1 THEN Bad ELSE st[1]

DenDecl(m) == DenValue(ast[m].val, m)

\* the names an expression anywhere in a value node refers to
RECURSIVE NamesIn(_)
NamesIn(nd) ==
    CASE nd.k = "float" -> {}
      [] nd.k = "dict" ->
            UNION {NamesIn(nd.d.items[j].val) : j \in 1..Len(nd.d.items)}
      [] nd.k = "expr" ->
            {nd.items[j].s : j \in {q \in 1..Len(nd.items) :
                                       IsConstantName(nd.items[q])}}

AtName == AtToken /\ IsConstantName(tokens[pos])

\* C1: an expression reads only names bound by strictly earlier
\* declarations.  While declaration i is evaluated env holds exactly the
\* names of declarations 1..i-1; evaluating a reference to any other name
\* (one declared only later, or the one being declared) raises
\* UnknownConstantError and ends the run; no run that succeeds has a
\* forward or self reference anywhere in its declarations.
C1_NoForwardOrSelfReference ==
    /\ [](i >= 1 =>
            {env.items[j].key : j \in 1..Len(env.items)}
                = {ast[j].name : j \in 1..(i - 1)})
    /\ [][(AtName /\ ~DeclaredBefore(tokens[pos].s, i)) =>
            /\ exc' = UnknownConstantError
            /\ pc' = "exit"
            /\ exit' = 1
            /\ stack' = stack]_vars
    /\ [](exc = UnknownConstantError =>
            ~DeclaredBefore(tokens[pos].s, i) /\ output = None)
    /\ [](Succeeded =>
            \A m \in 1..Len(ast) :
                \A s \in NamesIn(ast[m].val) : DeclaredBefore(s, m))

C1_Witness ==
    /\ pc = "exit"
    /\ exc = UnknownConstantError
    /\ i = 1
    /\ \E m \in 2..Len(ast) : ast[m].name = tokens[pos].s
    /\ ast[1].name # tokens[pos].s

\* C6: redeclaring a name is never rejected and overwrites.  Once
\* declarations 1..i-1 are evaluated, every name among them is bound, in env
\* and in result, to what its last declaration among them denotes; binding a
\* value always succeeds; and a reference reads what the most recent earlier
\* declaration of the name denotes.
C6_RedeclarationOverwrites ==
    /\ [](\A m \in 1..(i - 1) :
            LET v == DenDecl(LastBefore(ast[m].name, i))
            IN  /\ DictHas(env, ast[m].name)
                /\ DictGet(env, ast[m].name) = v
                /\ DictHas(result, ast[m].name)
                /\ DictGet(result, ast[m].name) = v)
    /\ [][(pc = "return" /\ frames = <<>>) =>
            /\ pc' = "for_decl"
            /\ exc' = ""
            /\ DictGet(env', ast[i].name) = ret
            /\ DictGet(result', ast[i].name) = ret]_vars
    /\ [][(AtName /\ pos' = pos + 1) =>
            /\ DeclaredBefore(tokens[pos].s, i)
            /\ stack' = Append(stack,
                          DenDecl(LastBefore(tokens[pos].s, i)))]_vars

\* a: 1; b: $ a $; a: 2.50  -  b is 1 and a is 2.5 in the result
C6_Witness ==
    /\ Succeeded
    /\ \E m, n, q \in 1..Len(ast) :
        /\ m < n /\ n < q
        /\ ast[m].name = ast[q].name
        /\ ast[n].name # ast[m].name
        /\ ast[n].val.k = "expr"
        /\ ast[m].name \in NamesIn(ast[n].val)
        /\ DenDecl(m) # DenDecl(q)
        /\ DictGet(data, ast[n].name) = DenDecl(m)
        /\ DictGet(data, ast[m].name) = DenDecl(q)

IsSiblingKey(s) ==
    \E q \in 1..Len(frames) :
        \E j \in 1..Len(frames[q].items) : frames[q].items[j].key = s

\* C7: evaluating a dictionary never changes env.  No step taken while a
\* dictionary is being evaluated changes env, and a reference to the key of
\* an entry of a dictionary being evaluated is looked up among the earlier
\* top-level declarations only: not declared there, it raises
\* UnknownConstantError; declared there, it reads what the top-level
\* declaration denotes (pushed when a number, NonNumericReferenceError when
\* a dictionary), never the sibling entry's value.
C7_DictionaryKeepsEnv ==
    /\ [][(frames # <<>> \/ frames' # <<>>) => env' = env]_vars
    /\ [][(AtName /\ frames # <<>> /\ IsSiblingKey(tokens[pos].s)) =>
            IF ~DeclaredBefore(tokens[pos].s, i)
            THEN exc' = UnknownConstantError /\ stack' = stack
            ELSE LET v == DenDecl(LastBefore(tokens[pos].s, i))
                 IN  IF v.k = "float"
                     THEN stack' = Append(stack, v) /\ exc' = ""
                     ELSE exc' = NonNumericReferenceError
                          /\ stack' = stack]_vars

\* a: 2; b: begin a := 1; b := $ a $; end  -  the reference to a reads 2
C7_Witness ==
    /\ pc = "eval_expr"
    /\ pos = 2
    /\ frames # <<>>
    /\ tokens[1].k = "str"
    /\ DictHas(Last(frames).d, tokens[1].s)
    /\ DictGet(Last(frames).d, tokens[1].s) # stack[1]
    /\ stack[1] = DictGet(env, tokens[1].s)

(***************************************************************************)
(* The source as the parse tree shows it.                                  *)
(***************************************************************************)
HasTree == tree # None

NumStatements == Len(tree.children)

\* statement j: its const_decl, the declared name, the tree of its value
ConstDecl(j) == tree.children[j].children[1]

StmtName(j) == ConstDecl(j).children[1].s

StmtValue(j) == ConstDecl(j).children[2]

AllNumbers == HasTree /\ \A j \in 1..NumStatements : StmtValue(j).data = "number"

IsLastOfName(j) ==
    \A j2 \in (j + 1)..NumStatements : StmtName(j2) # StmtName(j)

IsFirstOfName(j) == \A j2 \in 1..(j - 1) : StmtName(j2) # StmtName(j)

\* the number a literal denotes: its digits read left to right, scaled by
\* the number of digits after the point
RECURSIVE Horner(_, _)
Horner(ds, acc) ==
    IF ds = <<>> THEN acc ELSE Horner(Tail(ds), 10 * acc + Head(ds))

LiteralValue(tok) == Float(Horner(tok.ip \o tok.fp, 0), Pow10(Len(tok.fp)))

\* C2 as claimed: with only number declarations, the result has as many
\* entries as the source has const_decl statements and each name is bound to
\* the value of its literal.
C2_OneEntryPerDeclaration ==
    (AllNumbers /\ data # None) =>
        /\ Len(data.items) = NumStatements
        /\ \A j \in 1..NumStatements :
            /\ DictHas(data, StmtName(j))
            /\ DictGet(data, StmtName(j)) = LiteralValue(StmtValue(j).children[1])

\* C2, amended: with only number declarations the translation succeeds, the
\* result has as many entries as the source declares distinct names (as many
\* as it has const_decl statements when no name is declared twice), and
\* each name is bound to the value of the literal of its last declaration.
C2_OneEntryPerName ==
    AllNumbers =>
        /\ exc = ""
        /\ data # None =>
            /\ Len(data.items) =
                    Cardinality({StmtName(j) : j \in 1..NumStatements})
            /\ (\A j \in 1..NumStatements : IsFirstOfName(j))
                    => Len(data.items) = NumStatements
            /\ \A j \in 1..NumStatements :
                /\ DictHas(data, StmtName(j))
                /\ IsLastOfName(j) =>
                    DictGet(data, StmtName(j))
                        = LiteralValue(StmtValue(j).children[1])

\* a: 1; b: 2.50; a: 2.50  -  three declarations, two entries
C2_Witness ==
    /\ AllNumbers
    /\ data # None
    /\ NumStatements = 3
    /\ Len(data.items) = 2
    /\ DictGet(data, StmtName(1)) = Float(5, 2)
    /\ StmtValue(1).children[1] = IntTok(1)

\* some dictionary literal of tree t has the same key in two of its own
\* direct entries
RECURSIVE RepeatsKey(_)
RepeatsKey(t) ==
    /\ IsTree(t)
    /\ \/ /\ t.data = "dictionary"
          /\ \E j1, j2 \in 1..Len(t.children) :
                /\ j1 < j2
                /\ t.children[j1].children[1].s = t.children[j2].children[1].s
       \/ \E j \in 1..Len(t.children) : RepeatsKey(t.children[j])

\* C8: DuplicateKeyError is raised exactly when some dictionary literal has
\* the same key twice among its own direct entries; keys shared with a
\* nested dictionary, a sibling dictionary or a top-level name do not
\* raise it.
C8_DuplicateKeyExactly ==
    /\ (pc \in {"parse", "transform"} \/ ~HasTree) => exc # DuplicateKeyError
    /\ (pc \notin {"parse", "transform"} /\ HasTree) =>
            (exc = DuplicateKeyError <=> RepeatsKey(tree))
    /\ exc = DuplicateKeyError => stderr = "Semantic error" /\ exit = 1

\* a: begin a := begin a := 1; end; b := begin a := 1; end; end;
C8_Witness ==
    /\ Succeeded
    /\ text = DeclSrc("a", DictSrc(<<
                EntrySrc("a", DictSrc(<<EntrySrc("a", <<IntTok(1)>>)>>)),
                EntrySrc("b", DictSrc(<<EntrySrc("a", <<IntTok(1)>>)>>))>>))
    /\ Len(output.children[1].children) = 2

\* C9: a run writes its output only after the parse, the AST build and the
\* evaluation of every declaration have all succeeded; otherwise it ends at
\* the first error in pipeline order (parse, then AST build, then evaluation
\* in source order) with exit status 1: nothing runs after the error, no
\* later declaration is evaluated or bound, and no XML is built or written.
C9_FailFastNoPartialOutput ==
    /\ [](output # None =>
            /\ Succeeded
            /\ exc = "" /\ stderr = ""
            /\ HasTree
            /\ Len(ast) = NumStatements
            /\ i = Len(ast) + 1
            /\ Len(data.items) = Cardinality({ast[j].name : j \in 1..Len(ast)})
            /\ output = root)
    /\ [](exc # "" <=> exit = 1)
    /\ [](exc # "" =>
            /\ pc = "exit"
            /\ stderr \in {"Syntax error", "Semantic error"}
            /\ data = None /\ root = None /\ output = None)
    /\ [](exc = SyntaxError <=> stderr = "Syntax error")
    /\ [](exc = SyntaxError => ~HasTree /\ ast = <<>> /\ i = 0)
    /\ [](exc = DuplicateKeyError => ast = <<>> /\ i = 0)
    /\ []((HasTree /\ RepeatsKey(tree)) => i = 0 /\ env = EmptyDict)
    /\ []((exc # "" /\ i >= 1) =>
            /\ i <= Len(ast)
            /\ {result.items[j].key : j \in 1..Len(result.items)}
                    = {ast[j].name : j \in 1..(i - 1)})
    /\ [][pc # "exit"]_vars

\* the second of three declarations fails: the first is bound, the third is
\* never evaluated, nothing is written
C9_Witness ==
    /\ pc = "exit"
    /\ exit = 1
    /\ exc = UnknownConstantError
    /\ Len(ast) = 3
    /\ i = 2
    /\ Len(result.items) = 1
    /\ output = None

\* the element the source gives for a value: a dictionary literal gives a
\* dict with one child per dict_entry in source order, a number or an
\* expression gives a number
RECURSIVE SourceElement(_, _)
SourceElement(name, v) ==
    IF v.data = "dictionary"
    THEN [tag |-> "dict", name |-> name,
          children |-> [j \in 1..Len(v.children) |->
                          SourceElement(v.children[j].children[1].s,
                                        v.children[j].children[2])]]
    ELSE [tag |-> "number", name |-> name, children |-> <<>>]

\* the positions of the first declaration of each name, in source order
RECURSIVE FirstDecls(_)
FirstDecls(j) ==
    IF j > NumStatements THEN <<>>
    ELSE (IF IsFirstOfName(j) THEN <<j>> ELSE <<>>) \o FirstDecls(j + 1)

LastOfName(s) ==
    CHOOSE j \in 1..NumStatements : StmtName(j) = s /\ IsLastOfName(j)

\* an element without its text
RECURSIVE Shape(_)
Shape(e) ==
    [tag |-> e.tag, name |-> e.name,
     children |-> [j \in 1..Len(e.children) |-> Shape(e.children[j])]]

\* C10: build_xml gives a config element with one child per entry of the
\* mapping, in the mapping's order, a number for a numeric value and a dict
\* for a dictionary, each with the entry's name; against the source, the
\* children of config are the declared names in the order of their first
\* declaration, each with the shape of its last declaration's value, and
\* the children of a dict are its entries in source order.
C10_XmlFollowsSourceOrder ==
    root # None =>
        /\ root.tag = "config"
        /\ Len(root.children) = Len(data.items)
        /\ \A j \in 1..Len(data.items) :
            /\ root.children[j].name = data.items[j].key
            /\ root.children[j].tag =
                    (IF IsDict(data.items[j].val) THEN "dict" ELSE "number")
        /\ LET F == FirstDecls(1)
           IN  Shape(root).children =
                    [q \in 1..Len(F) |->
                        SourceElement(StmtName(F[q]),
                                      StmtValue(LastOfName(StmtName(F[q]))))]

\* b: ...; a: ...; a: begin b := 1; a := $ b $; end;
C10_Witness ==
    /\ root # None
    /\ NumStatements = 3
    /\ Len(root.children) = 2
    /\ root.children[1].name = "b"
    /\ root.children[2].tag = "dict"
    /\ Len(root.children[2].children) = 2
    /\ root.children[2].children[1].name = "b"
    /\ root.children[2].children[2].name = "a"

=============================================================================
